---- MODULE Spec2Model ----
(***************************************************************************)
(* A model of the voice assistant's core: the energy-based voice activity  *)
(* detector and the utterance segmenter of audio/input_handler.py, and     *)
(* the intent classifier of utils/intent_classifier.py.                    *)
(*                                                                         *)
(* Time is counted in milliseconds (time.time() returns seconds as a       *)
(* float; every duration of the program is a multiple of 1 ms here).       *)
(* An audio chunk is a sequence of bytes, a decoded frame a sequence of    *)
(* signed 16-bit samples. A real number r whose square is the rational     *)
(* num/den is carried as that pair, so that comparisons stay exact.        *)
(***************************************************************************)
EXTENDS Integers, Sequences, FiniteSets, TLC

VARIABLES
    \* AudioInputHandler
    is_listening,       \* self.is_listening
    stream,             \* self.stream: None or the open stream
    speech_buffer,      \* self.speech_buffer: the chunks of the utterance
    last_speech_time,   \* self.last_speech_time (None or ms)
    speech_start_time,  \* self.speech_start_time (None or ms)
    ret,                \* what the latest capture_speech call returned
    fired,              \* the callbacks the latest capture_speech call invoked
    \* the environment of the handler
    now,                \* the clock, time.time()
    calls,              \* capture_speech calls made so far
    scenario,           \* TRUE: the stream plays the recorded 20+30 frames
    lastInput,          \* what the latest call read: "off", "fail", "speech", "silence"
    \* the input seen as runs of speech (history, independent of the handler)
    run,                \* the open run: None or [first, last, frames, quiet]
    closedRun,          \* the run the latest call closed, or None
    nEmitted,           \* utterances returned so far
    \* one _is_speech call
    vadFrame, vadThreshold, vadResult,
    \* one classify_intent call
    text, llm, intent, genCalls,
    \* one send_laptop_task call
    dCfg,               \* backend_cfg: [host, port, timeout_seconds]
    dReq,               \* the arguments: [task_id, user_text, mode, options]
    dNet,               \* what the network and the backend do with the POST
    dOut,               \* None, or what the call came to
    \* one download_screenshot call
    dlIn,               \* the url and what the file system and the network do
    dlOut,              \* None, or what the call came to
    \* the VoiceAssistant
    running, laptop_config,
    comps,              \* which of audio_input, audio_output, stt, llm are set
    pc,                 \* where run() is
    question, responseText, \* the locals question and response of the loop body
    released,           \* how often each component's cleanup() was called
    sigInLoop,          \* a signal came while the loop was running
    lateIteration,      \* an iteration began after that signal
    audioData,          \* the local audio_data of the loop body
    handled,            \* None, or what the latest _process_question came to
    signalled,          \* a signal came since the assistant was constructed
    caught,             \* the exceptions caught at the loop boundary, counted
    transcribed,        \* the utterances passed to transcribe, by number
    dispatched,         \* the utterances passed to a handler, by number
    \* one classify_intent call on a LlamaInference
    lmIn,               \* the text and what the inference inside generate does
    lmOut               \* None, or the decision

segVars == <<is_listening, stream, speech_buffer, last_speech_time, speech_start_time,
             ret, fired, now, calls, scenario, lastInput, run, closedRun, nEmitted>>
vadVars == <<vadFrame, vadThreshold, vadResult>>
intentVars == <<text, llm, intent, genCalls>>
dispVars == <<dCfg, dReq, dNet, dOut>>
dlVars == <<dlIn, dlOut>>
llamaVars == <<lmIn, lmOut>>
callVars == <<dispVars, dlVars, llamaVars>>
mainVars == <<running, laptop_config, comps, pc, question, responseText, released,
              sigInLoop, lateIteration, audioData, handled, signalled, caught,
              transcribed, dispatched>>
vars == <<segVars, vadVars, intentVars, callVars, mainVars>>

\* Python's None, and a value that is present (so that x = None is x is None).
None == <<>>
Some(x) == <<x>>
Get(o) == o[1]

(***************************************************************************)
(* Bounds of the model.                                                    *)
(***************************************************************************)
ChunkSamples == 2       \* samples per chunk (chunk_size; 1024 in production)
MaxCalls == 5           \* capture_speech calls of a free run
MaxVadLen == 2          \* longest sample array handed to _is_speech alone
ScenarioSpeech == 20    \* speech frames of the recorded scenario
ScenarioSilence == 30   \* silence frames of the recorded scenario

(***************************************************************************)
(* Configuration (AudioInputHandler.__init__ defaults).                    *)
(***************************************************************************)
sample_rate == 16000
chunk_size == 1024
silence_duration == 1500        \* 1.5 s
min_speech_duration == 500      \* 0.5 s
\* vad_threshold = 0.01 = 1/100
vad_threshold == <<1, 100>>
\* the time one chunk of audio lasts: 64 ms
FramePeriod == (chunk_size * 1000) \div sample_rate

(***************************************************************************)
(* int16 arithmetic and the energy detector.                               *)
(***************************************************************************)
\* The value an int16 holds after an operation whose exact result is x.
Wrap16(x) == ((x + 32768) % 65536) - 32768

\* audio_data**2 on an int16 array: the result stays int16 and wraps.
Square16(s) == Wrap16(s * s)

RECURSIVE SumSeq(_)
SumSeq(s) == IF s = <<>> THEN 0 ELSE Head(s) + SumSeq(Tail(s))

\* float64 nan; any other energy is the non-negative real whose square is
\* num/den.
NaN == [nan |-> TRUE, num |-> 0, den |-> 1]

\* _calculate_energy: np.sqrt(np.mean(audio_data**2)). The mean is taken in
\* float64 over the wrapped squares; an empty array has mean nan, and the
\* square root of a negative mean is nan.
CalculateEnergy(audio_data) ==
    LET sq == [i \in 1..Len(audio_data) |-> Square16(audio_data[i])]
        total == SumSeq(sq)
    IN IF Len(audio_data) = 0 \/ total < 0
       THEN NaN
       ELSE [nan |-> FALSE, num |-> total, den |-> Len(audio_data)]

\* energy > threshold, for a threshold p/q (q > 0); any comparison with nan
\* is False.
EnergyAbove(energy, threshold) ==
    LET p == threshold[1]
        q == threshold[2]
    IN /\ ~energy.nan
       /\ \/ p < 0
          \/ energy.num * q * q > p * p * energy.den

\* The same comparison turned around, as a slip in the operator would.
IsSpeechLess(audio_data, threshold) ==
    LET energy == CalculateEnergy(audio_data)
        p == threshold[1]
        q == threshold[2]
    IN /\ ~energy.nan
       /\ p >= 0
       /\ energy.num * q * q < p * p * energy.den

\* _is_speech, with self.vad_threshold as a parameter.
IsSpeech(audio_data, threshold) ==
    EnergyAbove(CalculateEnergy(audio_data), threshold)

\* The root mean square of the samples themselves, above threshold? The
\* sum of the exact squares can pass 2^31, so it is carried as
\* high * 65536 + low and compared with floor(p^2 * n / q^2) that way.
ExactRmsAbove(audio_data, threshold) ==
    LET n == Len(audio_data)
        high == SumSeq([i \in 1..n |-> (audio_data[i] * audio_data[i]) \div 65536])
        low == SumSeq([i \in 1..n |-> (audio_data[i] * audio_data[i]) % 65536])
        p == threshold[1]
        q == threshold[2]
        bound == (p * p * n) \div (q * q)
        h == high + (low \div 65536)
        l == low % 65536
    IN /\ n > 0
       /\ \/ p < 0
          \/ h > bound \div 65536
          \/ h = bound \div 65536 /\ l > bound % 65536

\* np.frombuffer(chunk, dtype=np.int16): little-endian pairs of bytes.
FromBuffer(chunk) ==
    [i \in 1..(Len(chunk) \div 2) |->
        LET u == chunk[2 * i - 1] + 256 * chunk[2 * i]
        IN IF u >= 32768 THEN u - 65536 ELSE u]

\* The bytes the audio device delivers for a chunk whose samples are all v.
Chunk(v) ==
    LET u == IF v < 0 THEN v + 65536 ELSE v
    IN [i \in 1..(2 * ChunkSamples) |-> IF i % 2 = 1 THEN u % 256 ELSE u \div 256]

\* b''.join(chunks)
RECURSIVE Join(_)
Join(chunks) == IF chunks = <<>> THEN <<>> ELSE Head(chunks) \o Join(Tail(chunks))

(***************************************************************************)
(* The utterance segmenter: AudioInputHandler.capture_speech.              *)
(***************************************************************************)
\* The chunks the microphone can deliver: silence, two different quiet
\* voices, and a loud tone.
Chunks == {Chunk(0), Chunk(3), Chunk(-4), Chunk(200)}

\* The time that can pass between two capture_speech calls.
Delays == {0, FramePeriod, min_speech_duration, silence_duration}

\* is_speaking, lines 145-146
IsSpeaking(chunk) == IsSpeech(FromBuffer(chunk), vad_threshold)

\* line 163: silence_duration = current_time - self.last_speech_time
SilenceElapsed(current_time) == current_time - Get(last_speech_time)

\* line 165
SilenceMet(current_time) == SilenceElapsed(current_time) >= silence_duration

\* line 167: speech_duration = self.last_speech_time - self.speech_start_time
SpeechDuration == Get(last_speech_time) - Get(speech_start_time)

\* A strict comparison where the code's is not.
LongEnoughStrict == SpeechDuration > min_speech_duration

\* line 169
LongEnough == SpeechDuration >= min_speech_duration

\* The new chunk put in front of the buffer instead of behind it.
BufferPrepended(chunk) ==
    <<chunk>> \o (IF speech_start_time = None THEN <<>> ELSE speech_buffer)

\* lines 150-158: the buffer after a speech chunk (cleared first when the
\* speech just started).
BufferAfterSpeech(chunk) ==
    Append(IF speech_start_time = None THEN <<>> ELSE speech_buffer, chunk)

\* on_speech_start invoked on every speech chunk.
OnSpeechFiresAlways(chunk, current_time) ==
    /\ speech_start_time' =
          IF speech_start_time = None THEN Some(current_time) ELSE speech_start_time
    /\ speech_buffer' = BufferAfterSpeech(chunk)
    /\ last_speech_time' = Some(current_time)
    /\ fired' = {"on_speech_start"}
    /\ ret' = None

\* lines 148-159: a chunk classified as speech.
OnSpeech(chunk, current_time) ==
    /\ speech_start_time' =
          IF speech_start_time = None THEN Some(current_time) ELSE speech_start_time
    /\ speech_buffer' = BufferAfterSpeech(chunk)
    /\ last_speech_time' = Some(current_time)
    /\ fired' = IF speech_start_time = None THEN {"on_speech_start"} ELSE {}
    /\ ret' = None

\* The utterance returned with the start time left set.
EmitKeepsStart ==
    /\ ret' = Some(Join(speech_buffer))
    /\ speech_buffer' = <<>>
    /\ fired' = {"on_speech_end"}
    /\ UNCHANGED <<speech_start_time, last_speech_time>>

\* lines 170-179: a valid speech segment is returned.
Emit ==
    /\ ret' = Some(Join(speech_buffer))
    /\ speech_buffer' = <<>>
    /\ speech_start_time' = None
    /\ fired' = {"on_speech_end"}
    /\ UNCHANGED last_speech_time

\* The buffer dropped with the start time left set.
DiscardKeepsStart ==
    /\ speech_buffer' = <<>>
    /\ ret' = None
    /\ fired' = {}
    /\ UNCHANGED <<speech_start_time, last_speech_time>>

\* lines 180-184: a segment too short is discarded.
Discard ==
    /\ speech_buffer' = <<>>
    /\ speech_start_time' = None
    /\ ret' = None
    /\ fired' = {}
    /\ UNCHANGED last_speech_time

\* None returned and the buffer dropped.
ReturnNoneDropsBuffer ==
    /\ ret' = None
    /\ fired' = {}
    /\ speech_buffer' = <<>>
    /\ UNCHANGED <<speech_start_time, last_speech_time>>

\* return None with the segmenter untouched (lines 136, 142, 186).
ReturnNone ==
    /\ ret' = None
    /\ fired' = {}
    /\ UNCHANGED <<speech_buffer, speech_start_time, last_speech_time>>

\* lines 161-186: a chunk classified as silence.
OnSilence(current_time) ==
    IF speech_start_time # None /\ SilenceMet(current_time)
    THEN IF LongEnough THEN Emit ELSE Discard
    ELSE ReturnNone

\* read_chunk, lines 108-118: None unless listening on an open stream; the
\* device either delivers a chunk or the read fails (read = None).
ReadChunk(read) ==
    IF ~is_listening \/ stream = None THEN None ELSE read

\* The runs of speech in the input: a run opens at the first speech chunk
\* and is closed by the first silence chunk that comes silence_duration or
\* more after the run's last speech chunk. A run records the times of its
\* first and last speech chunk, its speech chunks in order, and how many
\* silence chunks fell inside it.
TrackRun(kind, chunk, t) ==
    /\ lastInput' = kind
    /\ IF kind = "speech"
       THEN /\ run' = IF run = None
                      THEN Some([first |-> t, last |-> t, frames |-> <<chunk>>,
                                 quiet |-> 0])
                      ELSE Some([Get(run) EXCEPT !.last = t, !.frames = Append(@, chunk)])
            /\ closedRun' = None
       ELSE IF kind = "silence" /\ run # None /\ t - Get(run).last >= silence_duration
       THEN /\ closedRun' = run
            /\ run' = None
       ELSE /\ closedRun' = None
            /\ run' = IF kind = "silence" /\ run # None
                      THEN Some([Get(run) EXCEPT !.quiet = @ + 1])
                      ELSE run

\* capture_speech, lines 120-186, called dt after the previous call while
\* the device would deliver `read`.
CaptureSpeech(read, dt) ==
    /\ now' = now + dt
    /\ calls' = calls + 1
    /\ IF ~is_listening
       THEN ReturnNone /\ TrackRun("off", <<>>, now')
       ELSE LET chunk == ReadChunk(read)
            IN IF chunk = None
               THEN ReturnNone /\ TrackRun("fail", <<>>, now')
               ELSE IF IsSpeaking(Get(chunk))
               THEN OnSpeech(Get(chunk), now') /\ TrackRun("speech", Get(chunk), now')
               ELSE OnSilence(now') /\ TrackRun("silence", Get(chunk), now')
    /\ nEmitted' = IF ret' # None THEN nEmitted + 1 ELSE nEmitted
    /\ UNCHANGED <<is_listening, stream, scenario>>

\* start_stream, lines 69-88 (a failing open raises and changes nothing).
StartStream ==
    /\ stream = None
    /\ stream' = Some("open")
    /\ is_listening' = TRUE
    /\ UNCHANGED <<speech_buffer, last_speech_time, speech_start_time, ret, fired,
                   now, calls, scenario, lastInput, run, closedRun, nEmitted>>

\* stop_stream, lines 90-97
StopStream ==
    /\ ~scenario
    /\ stream # None
    /\ stream' = None
    /\ is_listening' = FALSE
    /\ UNCHANGED <<speech_buffer, last_speech_time, speech_start_time, ret, fired,
                   now, calls, scenario, lastInput, run, closedRun, nEmitted>>

\* Any chunk at any time.
CaptureFree ==
    /\ ~scenario
    /\ calls < MaxCalls
    /\ \E read \in {Some(c) : c \in Chunks} \cup {None}, dt \in Delays :
          CaptureSpeech(read, dt)

\* The recorded scenario: ScenarioSpeech speech chunks, then ScenarioSilence
\* silence chunks, one every FramePeriod.
CaptureScenario ==
    /\ scenario
    /\ is_listening
    /\ calls < ScenarioSpeech + ScenarioSilence
    /\ CaptureSpeech(Some(IF calls < ScenarioSpeech THEN Chunk(3) ELSE Chunk(0)),
                     FramePeriod)

\* AudioInputHandler.__init__, lines 38-53
InitSeg ==
    /\ is_listening = FALSE
    /\ stream = None
    /\ speech_buffer = <<>>
    /\ last_speech_time = None
    /\ speech_start_time = None
    /\ ret = None
    /\ fired = {}
    /\ now = 0
    /\ calls = 0
    /\ scenario \in BOOLEAN
    /\ lastInput = "off"
    /\ run = None
    /\ closedRun = None
    /\ nEmitted = 0

InitVadIdle ==
    /\ vadFrame = <<>>
    /\ vadThreshold = vad_threshold
    /\ vadResult = None

InitIntentIdle ==
    /\ text = <<>>
    /\ llm = None
    /\ intent = None
    /\ genCalls = 0

\* No send_laptop_task call is under way.
InitDispIdle ==
    /\ dCfg = [host |-> "localhost", port |-> 8000, timeout_seconds |-> 300]
    /\ dReq = [task_id |-> "", user_text |-> <<>>, mode |-> None, options |-> None]
    /\ dNet = [kind |-> "idle", error |-> "", shape |-> "", obj |-> <<>>]
    /\ dOut = None

\* No download_screenshot call is under way.
InitDlIdle ==
    /\ dlIn = [url |-> <<>>, mkdir |-> "ok", env |-> None, net |-> "ok",
               write |-> "ok"]
    /\ dlOut = None

Components == {"audio_input", "audio_output", "stt", "llm"}

\* VoiceAssistant.__init__, lines 31-47: the assistant is constructed, its
\* signal handlers installed, run() not yet called.
InitMainIdle ==
    /\ running = FALSE
    /\ laptop_config = None
    /\ comps = [c \in Components |-> FALSE]
    /\ pc = "constructed"
    /\ question = None
    /\ responseText = None
    /\ released = [c \in Components |-> 0]
    /\ sigInLoop = FALSE
    /\ lateIteration = FALSE
    /\ audioData = None
    /\ handled = None
    /\ signalled = FALSE
    /\ caught = 0
    /\ transcribed = <<>>
    /\ dispatched = <<>>

\* No classify_intent call on a LlamaInference is under way.
InitLlamaIdle ==
    /\ lmIn = [text |-> <<>>, inference |-> [kind |-> "idle", text |-> <<>>]]
    /\ lmOut = None

Init == InitSeg /\ InitVadIdle /\ InitIntentIdle
        /\ InitDispIdle /\ InitDlIdle /\ InitLlamaIdle /\ InitMainIdle

Next ==
    \/ StartStream /\ UNCHANGED <<vadVars, intentVars, callVars, mainVars>>
    \/ StopStream /\ UNCHANGED <<vadVars, intentVars, callVars, mainVars>>
    \/ CaptureFree /\ UNCHANGED <<vadVars, intentVars, callVars, mainVars>>
    \/ CaptureScenario /\ UNCHANGED <<vadVars, intentVars, callVars, mainVars>>

Spec == Init /\ [][Next]_vars

(***************************************************************************)
(* One _is_speech call on its own.                                         *)
(***************************************************************************)
VadSamples == {-32768, -1, 0, 1, 3, 181, 182, 200, 256, 32767}

RECURSIVE SeqsUpTo(_, _)
SeqsUpTo(S, n) ==
    IF n = 0 THEN {<<>>}
    ELSE LET shorter == SeqsUpTo(S, n - 1)
         IN shorter \cup {Append(q, x) : q \in shorter, x \in S}

\* Thresholds p/q as pairs <<p, q>>.
Thresholds == {<<-1, 1>>, <<0, 1>>, <<1, 100>>, <<1, 1>>, <<3, 1>>,
               <<181, 1>>, <<200, 1>>, <<300, 1>>}

RatLeq(a, b) == a[1] * b[2] <= b[1] * a[2]

CallIsSpeech ==
    /\ vadResult = None
    /\ vadResult' = Some(IsSpeech(vadFrame, vadThreshold))
    /\ UNCHANGED <<vadFrame, vadThreshold, segVars, intentVars, callVars, mainVars>>

InitVad ==
    /\ InitSeg
    /\ ~scenario
    /\ InitIntentIdle
    /\ InitDispIdle /\ InitDlIdle /\ InitLlamaIdle /\ InitMainIdle
    /\ vadFrame \in SeqsUpTo(VadSamples, MaxVadLen)
    /\ vadThreshold \in Thresholds
    /\ vadResult = None

NextVad == CallIsSpeech

SpecVad == InitVad /\ [][NextVad]_vars

(***************************************************************************)
(* Strings are sequences of characters.                                    *)
(***************************************************************************)
UpperCase == <<"A", "B", "C", "D", "E", "F", "G", "H", "I", "J", "K", "L", "M",
               "N", "O", "P", "Q", "R", "S", "T", "U", "V", "W", "X", "Y", "Z">>
LowerCase == <<"a", "b", "c", "d", "e", "f", "g", "h", "i", "j", "k", "l", "m",
               "n", "o", "p", "q", "r", "s", "t", "u", "v", "w", "x", "y", "z">>
Whitespace == {" ", "\t", "\n"}

\* str.lower()
Lower(s) ==
    [i \in 1..Len(s) |->
        IF \E k \in 1..26 : UpperCase[k] = s[i]
        THEN LowerCase[CHOOSE k \in 1..26 : UpperCase[k] = s[i]]
        ELSE s[i]]

RECURSIVE LStrip(_)
LStrip(s) == IF s # <<>> /\ Head(s) \in Whitespace THEN LStrip(Tail(s)) ELSE s

RECURSIVE RStrip(_)
RStrip(s) ==
    IF s # <<>> /\ s[Len(s)] \in Whitespace
    THEN RStrip(SubSeq(s, 1, Len(s) - 1))
    ELSE s

\* str.strip()
Strip(s) == RStrip(LStrip(s))

\* sub in s
Contains(s, sub) ==
    \E i \in 0..(Len(s) - Len(sub)) : SubSeq(s, i + 1, i + Len(sub)) = sub

(***************************************************************************)
(* classify_intent (utils/intent_classifier.py).                           *)
(* A confidence is counted in tenths: 0.0, 0.5, 0.7, 0.8, 1.0 are          *)
(* 0, 5, 7, 8, 10.                                                         *)
(***************************************************************************)
S_laptop_action == <<"l", "a", "p", "t", "o", "p", "_", "a", "c", "t", "i", "o", "n">>
S_laptop == <<"l", "a", "p", "t", "o", "p">>
S_local_qa == <<"l", "o", "c", "a", "l", "_", "q", "a">>
S_local == <<"l", "o", "c", "a", "l">>

\* laptop_indicators of the unparseable-reply fallback, lines 95-98
LaptopIndicators ==
    {<<"o", "p", "e", "n">>,
     <<"g", "o", " ", "t", "o">>,
     <<"l", "o", "g", "i", "n">>,
     <<"t", "e", "x", "t">>,
     <<"m", "e", "s", "s", "a", "g", "e">>,
     <<"s", "e", "n", "d">>,
     <<"c", "l", "i", "c", "k">>,
     <<"t", "y", "p", "e">>,
     <<"n", "a", "v", "i", "g", "a", "t", "e">>,
     <<"w", "e", "b", "s", "i", "t", "e">>,
     <<"a", "p", "p">>,
     <<"a", "p", "p", "l", "i", "c", "a", "t", "i", "o", "n">>}

\* laptop_indicators of the exception fallback, lines 113-116
LaptopIndicatorsOnError ==
    {<<"o", "p", "e", "n">>,
     <<"g", "o", " ", "t", "o">>,
     <<"l", "o", "g", "i", "n">>,
     <<"t", "e", "x", "t">>,
     <<"m", "e", "s", "s", "a", "g", "e">>,
     <<"s", "e", "n", "d">>,
     <<"c", "l", "i", "c", "k">>,
     <<"t", "y", "p", "e">>,
     <<"n", "a", "v", "i", "g", "a", "t", "e">>,
     <<"w", "e", "b", "s", "i", "t", "e">>,
     <<"a", "p", "p">>}

\* What a call comes to: it returns (kind, confidence) or raises; generated
\* counts the llm.generate calls it made.
Returns(kind, confidence, generated) ==
    [raised |-> FALSE, kind |-> kind, confidence |-> confidence,
     generated |-> generated]
Raises(generated) ==
    [raised |-> TRUE, kind |-> "", confidence |-> 0, generated |-> generated]

\* What an llm does when llm.generate is called: it raises, returns a str,
\* or returns something that is no str.
Raising == [kind |-> "raise", reply |-> <<>>]
Replying(r) == [kind |-> "reply", reply |-> r]
ReplyingNoStr == [kind |-> "nostr", reply |-> <<>>]

\* line 67: not text or not text.strip()
IsBlank(t) == t = <<>> \/ Strip(t) = <<>>

\* line 99: any(indicator in text.lower() for indicator in laptop_indicators)
AnyIndicator(t, indicators) == \E k \in indicators : Contains(Lower(t), k)

\* The indicators looked for in the reply instead of the text.
KeywordFallbackOnReply(t, response) ==
    IF AnyIndicator(response, LaptopIndicators)
    THEN Returns("laptop_action", 8, 1)
    ELSE Returns("local_qa", 8, 1)

\* lines 93-104: the reply names no intent
KeywordFallback(t, response) ==
    IF AnyIndicator(t, LaptopIndicators)
    THEN Returns("laptop_action", 8, 1)
    ELSE Returns("local_qa", 8, 1)

\* "local" looked for before "laptop".
ParseReplyLocalFirst(t, reply) ==
    LET response == Lower(Strip(reply))
    IN IF Contains(response, S_local_qa) \/ Contains(response, S_local)
       THEN Returns("local_qa", 10, 1)
       ELSE IF Contains(response, S_laptop_action) \/ Contains(response, S_laptop)
       THEN Returns("laptop_action", 10, 1)
       ELSE KeywordFallback(t, response)

\* lines 83-107: the reply is cleaned and the intent extracted from it
ParseReply(t, reply) ==
    LET response == Lower(Strip(reply))
    IN IF Contains(response, S_laptop_action) \/ Contains(response, S_laptop)
       THEN Returns("laptop_action", 10, 1)
       ELSE IF Contains(response, S_local_qa) \/ Contains(response, S_local)
       THEN Returns("local_qa", 10, 1)
       ELSE KeywordFallback(t, response)

\* The failure handed on to the caller.
OnExceptionReraise(t) == Raises(1)

\* The exception fallback with "app" left out of its list.
OnExceptionNoApp(t) ==
    IF AnyIndicator(t, LaptopIndicatorsOnError \ {<<"a", "p", "p">>})
    THEN Returns("laptop_action", 7, 1)
    ELSE Returns("local_qa", 7, 1)

\* lines 109-119: except Exception
OnException(t) ==
    IF AnyIndicator(t, LaptopIndicatorsOnError)
    THEN Returns("laptop_action", 7, 1)
    ELSE Returns("local_qa", 7, 1)

\* lines 75-119: the llm is asked; whatever it raises (an Exception), and
\* the AttributeError of response.strip() on a reply that is no str, is
\* caught.
AskLlm(t, behaviour) ==
    IF behaviour.kind = "reply"
    THEN ParseReply(t, behaviour.reply)
    ELSE OnException(t)

\* The llm looked at before the text.
ClassifyIntentLlmFirst(t, l) ==
    IF l = None THEN Returns("local_qa", 5, 0)
    ELSE IF IsBlank(t) THEN Returns("local_qa", 0, 0)
    ELSE AskLlm(t, Get(l))

\* classify_intent, lines 52-119
ClassifyIntent(t, l) ==
    IF IsBlank(t) THEN Returns("local_qa", 0, 0)
    ELSE IF l = None THEN Returns("local_qa", 5, 0)
    ELSE AskLlm(t, Get(l))

\* The texts a user may say.
Texts ==
    {<<>>,
     <<" ", " ">>,
     <<" ", "\t", "\n">>,
     <<"o", "p", "e", "n", " ", "S", "a", "f", "a", "r", "i">>,
     <<"O", "P", "E", "N", " ", "i", "t">>,
     <<"w", "h", "a", "t", " ", "i", "s", " ", "P", "y", "t", "h", "o", "n">>,
     <<"G", "o", " ", "T", "o", " ", "x">>,
     <<"c", "o", "n", "t", "e", "x", "t">>,
     <<"h", "a", "p", "p", "y">>,
     <<"h", "i">>,
     <<" ", "s", "e", "n", "d", "\n">>,
     <<"l", "o", "g", " ", "i", "n">>,
     <<"m", "y", " ", "a", "p", "p", "l", "i", "c", "a", "t", "i", "o", "n">>}

\* The replies a model may give.
Replies ==
    {<<"l", "a", "p", "t", "o", "p", "_", "a", "c", "t", "i", "o", "n">>,
     <<"l", "o", "c", "a", "l", "_", "q", "a">>,
     <<" ", "L", "a", "p", "t", "o", "p", "_", "A", "c", "t", "i", "o", "n", "\n">>,
     <<"L", "O", "C", "A", "L">>,
     <<"l", "o", "c", "a", "l", " ", "o", "r", " ", "l", "a", "p", "t", "o", "p">>,
     <<"o", "p", "e", "n", " ", "t", "h", "e", " ", "a", "p", "p">>,
     <<>>,
     <<"m", "a", "y", "b", "e">>}

Llms == {None, Some(Raising), Some(ReplyingNoStr)} \cup {Some(Replying(r)) : r \in Replies}

Classify ==
    /\ intent = None
    /\ LET result == ClassifyIntent(text, llm)
       IN /\ intent' = Some(result)
          /\ genCalls' = genCalls + result.generated
    /\ UNCHANGED <<text, llm, segVars, vadVars, callVars, mainVars>>

InitIntent ==
    /\ InitSeg
    /\ ~scenario
    /\ InitVadIdle
    /\ InitDispIdle /\ InitDlIdle /\ InitLlamaIdle /\ InitMainIdle
    /\ text \in Texts
    /\ llm \in Llms
    /\ intent = None
    /\ genCalls = 0

NextIntent == Classify

SpecIntent == InitIntent /\ [][NextIntent]_vars

(***************************************************************************)
(* send_laptop_task (utils/laptop_client.py).                              *)
(* A Python value is None or Some(v); a dict is the set of its             *)
(* <<key, value>> pairs; a field of a JSON object is Absent or Present(v), *)
(* where v = None is JSON null.                                            *)
(***************************************************************************)
Absent == <<"absent">>
Present(v) == <<"present", v>>

\* dict.get(key, default) on a field of the decoded JSON object
DictGet(field, default) == IF field = Absent THEN default ELSE field[2]

\* LaptopBackendConfig.base_url, lines 38-40
BaseUrl(cfg) == "http://" \o cfg.host \o ":" \o ToString(cfg.port)

\* line 62: the options sent when the caller's are None (or falsy)
DefaultOptions == {<<"send_screenshot", TRUE>>}

\* line 62: options or {"send_screenshot": True}; an empty dict is falsy
PayloadOptions(options) ==
    IF options = None \/ Get(options) = {} THEN DefaultOptions ELSE Get(options)

\* lines 58-63: payload
Payload(task_id, user_text, mode, options) ==
    [task_id |-> task_id, user_text |-> Strip(user_text), mode |-> mode,
     options |-> PayloadOptions(options)]

\* Only the empty text refused, the blank one let through.
RejectsTextEmptyOnly(user_text) == user_text = <<>>

\* line 55: not user_text or not user_text.strip()
RejectsText(user_text) == user_text = <<>> \/ Strip(user_text) = <<>>

\* The result dict of a call.
Result(task_id, status, message, screenshot_url) ==
    [task_id |-> task_id, status |-> status, message |-> message,
     screenshot_url |-> screenshot_url]
NoResult == Result(None, None, None, None)

\* What a call comes to: it returned a result, raised exc, or is blocked in
\* the POST; posts are the requests it issued, built tells whether the
\* payload was built.
Returned(result, posts) ==
    [state |-> "returned", exc |-> "", result |-> result, posts |-> posts,
     built |-> TRUE]
Raised(exc, posts, built) ==
    [state |-> "raised", exc |-> exc, result |-> NoResult, posts |-> posts,
     built |-> built]
Blocked(posts) ==
    [state |-> "blocked", exc |-> "", result |-> NoResult, posts |-> posts,
     built |-> TRUE]

\* The RequestException handed on to the caller.
UnreachableReraise(task_id, error, posts) == Raised("RequestException", posts, TRUE)

\* lines 74-81: except requests.RequestException
Unreachable(task_id, error, posts) ==
    Returned(Result(Some(task_id), Some("error"),
                    Some("Could not reach laptop backend: " \o error), None),
             posts)

\* lines 85-92: except ValueError, the body is no JSON
NonJson(task_id, posts) ==
    Returned(Result(Some(task_id), Some("error"),
                    Some("Laptop backend returned non-JSON response"), None),
             posts)

\* line 96: data.get("message") or ""
MessageOf(obj) ==
    LET m == DictGet(obj.message, None)
    IN IF m = None \/ m = Some("") THEN Some("") ELSE m

\* The task_id of the request returned whatever the response holds.
NormalizeKeepsRequestId(obj, task_id, posts) ==
    Returned(Result(Some(task_id),
                    DictGet(obj.status, Some("unknown")),
                    MessageOf(obj),
                    DictGet(obj.screenshot_url, None)),
             posts)

\* lines 94-104: the fields of the JSON object, normalized
Normalize(obj, task_id, posts) ==
    Returned(Result(DictGet(obj.task_id, Some(task_id)),
                    DictGet(obj.status, Some("unknown")),
                    MessageOf(obj),
                    DictGet(obj.screenshot_url, None)),
             posts)

\* lines 83-104: response.json() raises ValueError on a body that is no
\* JSON; on JSON that is no object, data.get raises AttributeError.
OnResponse(net, task_id, posts) ==
    IF net.shape = "nonjson" THEN NonJson(task_id, posts)
    ELSE IF net.shape = "object" THEN Normalize(net.obj, task_id, posts)
    ELSE Raised("AttributeError", posts, TRUE)

\* send_laptop_task, lines 43-104. requests.post(url, json=payload,
\* timeout=None) raises a RequestException, returns the response, or never
\* returns when the backend stays silent.
SendLaptopTask(cfg, task_id, user_text, mode, options, net) ==
    IF RejectsText(user_text) THEN Raised("ValueError", <<>>, FALSE)
    ELSE LET posts == <<[url |-> BaseUrl(cfg) \o "/pi_task",
                         json |-> Payload(task_id, user_text, mode, options)]>>
         IN IF net.kind = "fail" THEN Unreachable(task_id, net.error, posts)
            ELSE IF net.kind = "silent" THEN Blocked(posts)
            ELSE OnResponse(net, task_id, posts)

\* The configurations, the arguments and the backends of the model.
BackendConfigs ==
    {[host |-> "localhost", port |-> 8000, timeout_seconds |-> 300],
     [host |-> "mac.local", port |-> 8080, timeout_seconds |-> 60]}

TaskTexts ==
    {<<>>, <<" ", "\t">>, <<"h", "i">>,
     <<" ", "O", "p", "e", "n", " ", "i", "t", "\n">>}

Requests ==
    [task_id : {"t1", "t2"},
     user_text : TaskTexts,
     mode : {None, Some("gui_task")},
     options : {None, Some({}), Some({<<"send_screenshot", TRUE>>}),
                Some({<<"send_screenshot", FALSE>>, <<"verbose", TRUE>>})}]

ScreenshotUrl ==
    <<"h", "t", "t", "p", ":", "/", "/", "m", "a", "c", ".", "l", "o", "c", "a", "l", "/", "s", "/", "a", ".", "p", "n", "g">>

JsonObjects ==
    [task_id : {Absent, Present(None), Present(Some("t1")), Present(Some("t9"))},
     status : {Absent, Present(None), Present(Some("done")), Present(Some("error")),
               Present(Some("running"))},
     message : {Absent, Present(None), Present(Some("")), Present(Some("opened"))},
     screenshot_url : {Absent, Present(None), Present(Some(<<>>)),
                       Present(Some(ScreenshotUrl))}]

NoObject ==
    [task_id |-> Absent, status |-> Absent, message |-> Absent,
     screenshot_url |-> Absent]

Networks ==
    {[kind |-> "fail", error |-> err, shape |-> "", obj |-> NoObject] :
        err \in {"", "Connection refused"}}
    \cup {[kind |-> "silent", error |-> "", shape |-> "", obj |-> NoObject]}
    \cup {[kind |-> "response", error |-> "", shape |-> sh, obj |-> NoObject] :
             sh \in {"nonjson", "array", "string", "number", "null"}}
    \cup {[kind |-> "response", error |-> "", shape |-> "object", obj |-> o] :
             o \in JsonObjects}

Send ==
    /\ dOut = None
    /\ dOut' = Some(SendLaptopTask(dCfg, dReq.task_id, dReq.user_text, dReq.mode,
                                   dReq.options, dNet))
    /\ UNCHANGED <<dCfg, dReq, dNet, segVars, vadVars, intentVars, dlVars, llamaVars,
                   mainVars>>

InitDisp ==
    /\ InitSeg
    /\ ~scenario
    /\ InitVadIdle
    /\ InitIntentIdle
    /\ InitDlIdle
    /\ InitLlamaIdle
    /\ InitMainIdle
    /\ dCfg \in BackendConfigs
    /\ dReq \in Requests
    /\ dNet \in Networks
    /\ dOut = None

NextDisp == Send

SpecDisp == InitDisp /\ [][NextDisp]_vars

(***************************************************************************)
(* download_screenshot (utils/laptop_client.py).                           *)
(***************************************************************************)

\* line 117: url.split("/")[-1]
LastSegment(url) ==
    LET slashes == {i \in 1..Len(url) : url[i] = "/"}
        last == CHOOSE x \in slashes : \A y \in slashes : y <= x
    IN IF slashes = {} THEN url ELSE SubSeq(url, last + 1, Len(url))

DefaultFileName == <<"s", "c", "r", "e", "e", "n", "s", "h", "o", "t", ".", "p", "n", "g">>

\* line 117: url.split("/")[-1] or "screenshot.png"
FileName(url) == IF LastSegment(url) = <<>> THEN DefaultFileName ELSE LastSegment(url)

\* line 118: dest_dir / filename
DestPath(dest_dir, url) == [dir |-> dest_dir, name |-> FileName(url)]

Digits == {"0", "1", "2", "3", "4", "5", "6", "7", "8", "9"}

\* line 123: float(...) of the setting; a text that is no number raises
\* ValueError.
FloatParses(s) ==
    LET t == Strip(s)
    IN /\ \E i \in 1..Len(t) : t[i] \in Digits
       /\ \A i \in 1..Len(t) : t[i] \in Digits \cup {"."}
       /\ Cardinality({i \in 1..Len(t) : t[i] = "."}) <= 1

DefaultTimeout == <<"3", "0">>

\* line 123: os.getenv("SCREENSHOT_DOWNLOAD_TIMEOUT", "30")
TimeoutSetting(env) == IF env = None THEN DefaultTimeout ELSE Get(env)

\* What a download_screenshot call comes to: the path or None it returned or
\* the exception it raised, whether the file was fetched, and the file it
\* wrote.
DlReturned(path, fetched, written) ==
    [state |-> "returned", exc |-> "", path |-> path, fetched |-> fetched,
     written |-> written]
DlRaised(exc) ==
    [state |-> "raised", exc |-> exc, path |-> None, fetched |-> FALSE,
     written |-> None]

\* lines 122-134: the request and the write, each in its own try.
FetchAndWrite(path, net, write) ==
    IF net # "ok" THEN DlReturned(None, FALSE, None)
    ELSE IF write # "ok" THEN DlReturned(None, TRUE, None)
    ELSE DlReturned(Some(path), TRUE, Some(path))

\* download_screenshot, lines 107-134. mkdir (line 116) and float (line 123)
\* raise past the handlers: the first is outside every try, the second
\* raises a ValueError where only RequestException is caught.
DownloadScreenshot(url, dest_dir, in) ==
    IF url = <<>> THEN DlReturned(None, FALSE, None)
    ELSE IF in.mkdir # "ok" THEN DlRaised("OSError")
    ELSE IF ~FloatParses(TimeoutSetting(in.env)) THEN DlRaised("ValueError")
    ELSE FetchAndWrite(DestPath(dest_dir, url), in.net, in.write)

ScreenshotDir == "./screenshots"

DownloadInputs ==
    [url : {<<>>, ScreenshotUrl, <<"h", "t", "t", "p", ":", "/", "/", "m", "a", "c", ".", "l", "o", "c", "a", "l", "/", "s", "/">>},
     mkdir : {"ok", "fail"},
     env : {None, Some(<<"3", "0">>), Some(<<"2", ".", "5">>),
            Some(<<"a", "b", "c">>), Some(<<>>)},
     net : {"ok", "fail", "http_error"},
     write : {"ok", "fail"}]

Download ==
    /\ dlOut = None
    /\ dlOut' = Some(DownloadScreenshot(dlIn.url, ScreenshotDir, dlIn))
    /\ UNCHANGED <<dlIn, segVars, vadVars, intentVars, dispVars, llamaVars, mainVars>>

InitDl ==
    /\ InitSeg
    /\ ~scenario
    /\ InitVadIdle
    /\ InitIntentIdle
    /\ InitDispIdle
    /\ InitLlamaIdle
    /\ InitMainIdle
    /\ dlIn \in DownloadInputs
    /\ dlOut = None

NextDl == Download

SpecDl == InitDl /\ [][NextDl]_vars

(***************************************************************************)
(* classify_intent on a LlamaInference (llm/llama_inference.py): generate  *)
(* returns the cleaned text of the model, or a fixed sentence when the     *)
(* inference raises.                                                       *)
(***************************************************************************)
\* line 145: the text returned on any exception
ErrorReply ==
    <<"I", "'", "m", " ", "s", "o", "r", "r", "y", ",", " ", "I", " ", "e", "n", "c", "o", "u", "n", "t", "e", "r", "e", "d", " ", "a", "n", " ", "e", "r", "r", "o", "r", " ", "p", "r", "o", "c", "e", "s", "s", "i", "n", "g", " ", "y", "o", "u", "r", " ", "q", "u", "e", "s", "t", "i", "o", "n", ".">>

AnswerPrefix == <<"A", "n", "s", "w", "e", "r", ":">>

\* str.startswith
StartsWith(t, prefix) ==
    Len(t) >= Len(prefix) /\ SubSeq(t, 1, Len(prefix)) = prefix

\* lines 133-138: text.strip(), and a leading "Answer:" removed
CleanUp(t) ==
    IF StartsWith(Strip(t), AnswerPrefix)
    THEN Strip(SubSeq(Strip(t), Len(AnswerPrefix) + 1, Len(Strip(t))))
    ELSE Strip(t)

\* LlamaInference.generate, lines 109-145, as classify_intent sees it: a
\* str is returned whatever the inference does.
LlamaGenerate(inference) ==
    IF inference.kind = "fail" THEN Replying(ErrorReply)
    ELSE Replying(CleanUp(inference.text))

\* What the inference (self.llm(prompt, ...), line 117) does.
Inferences ==
    {[kind |-> "fail", text |-> <<>>]}
    \cup {[kind |-> "ok", text |-> r] :
             r \in Replies \cup {<<"A", "n", "s", "w", "e", "r", ":", " ", "l", "a", "p", "t", "o", "p", "_", "a", "c", "t", "i", "o", "n">>}}

ClassifyOnLlama ==
    /\ lmOut = None
    /\ lmOut' = Some(ClassifyIntent(lmIn.text, Some(LlamaGenerate(lmIn.inference))))
    /\ UNCHANGED <<lmIn, segVars, vadVars, intentVars, dispVars, dlVars, mainVars>>

InitLlama ==
    /\ InitSeg
    /\ ~scenario
    /\ InitVadIdle
    /\ InitIntentIdle
    /\ InitDispIdle
    /\ InitDlIdle
    /\ InitMainIdle
    /\ lmIn \in [text : Texts, inference : Inferences]
    /\ lmOut = None

NextLlama == ClassifyOnLlama

SpecLlama == InitLlama /\ [][NextLlama]_vars

(***************************************************************************)
(* The VoiceAssistant (main.py): run(), its loop, the signal handler and   *)
(* cleanup(). run() is followed step by step through pc; a signal may come *)
(* between any two steps.                                                  *)
(***************************************************************************)
\* The truth value of an optional str or bytes value: bytes and the texts
\* handled character by character are sequences, the others strings.
Truthy(o) == o # None /\ Get(o) # <<>>
TruthyStr(o) == o # None /\ Get(o) # ""

\* line 237: str(uuid.uuid4())
UuidTaskId == "t1"

\* lines 242-243: the arguments of the dispatch
GuiTaskMode == Some("gui_task")
SendScreenshot == Some({<<"send_screenshot", TRUE>>})

\* What a _process_question call comes to: it returned text, raised exc,
\* or is blocked in the POST; with the intent the classifier gave (None when
\* it was not asked), the send_laptop_task calls made, the POSTs issued,
\* what the dispatch and the download came to (None when there was none),
\* and whether the local model was asked to answer.
NoHandler ==
    [state |-> "returned", text |-> None, exc |-> "", intent |-> None, sends |-> 0,
     posts |-> <<>>, dispatch |-> None, download |-> None, generated |-> FALSE]

\* lines 236-244: send_laptop_task was called and came to out
Dispatched(out) ==
    [NoHandler EXCEPT !.sends = 1, !.posts = out.posts, !.dispatch = Some(out)]

\* line 253: download_screenshot was called and came to d
Downloaded(out, d) == [Dispatched(out) EXCEPT !.download = Some(d)]

\* lines 262-264: except Exception, for the dispatch and for the download
CouldNotSend(h, exc) ==
    [h EXCEPT !.text = Some("Sorry, I couldn't send that task to your laptop: " \o exc)]

\* line 257
TaskCompleted(h, result) ==
    [h EXCEPT !.text = Some("Task completed: " \o Get(result.message))]

\* lines 246-257: status "done"; the screenshot is downloaded when there is
\* a URL, and an exception of the download is caught in line 262.
OnDone(out, dl) ==
    IF Truthy(out.result.screenshot_url)
    THEN LET d == DownloadScreenshot(Get(out.result.screenshot_url), ScreenshotDir, dl)
         IN IF d.state = "raised"
            THEN CouldNotSend(Downloaded(out, d), d.exc)
            ELSE TaskCompleted(Downloaded(out, d), out.result)
    ELSE TaskCompleted(Dispatched(out), out.result)

\* lines 258-260: any other status
OnNotDone(out) ==
    [Dispatched(out) EXCEPT
        !.text = Some("Sorry, the laptop task failed: " \o Get(out.result.message))]

\* The exception of send_laptop_task handed on to the caller.
OnDispatchExceptionReraise(out) ==
    [Dispatched(out) EXCEPT !.state = "raised", !.exc = out.exc]

\* lines 262-264: except Exception
OnDispatchException(out) == CouldNotSend(Dispatched(out), out.exc)

\* line 232
NotConfigured ==
    [NoHandler EXCEPT !.text = Some("Laptop backend is not configured. Please set laptop host and port in config.yaml.")]

\* _handle_laptop_action, lines 229-264
HandleLaptopAction(q, cfg, net, dl) ==
    IF cfg = None THEN NotConfigured
    ELSE LET out == SendLaptopTask(Get(cfg), UuidTaskId, q, GuiTaskMode,
                                   SendScreenshot, net)
         IN IF out.state = "blocked" THEN [Dispatched(out) EXCEPT !.state = "blocked"]
            ELSE IF out.state = "raised" THEN OnDispatchException(out)
            ELSE IF out.result.status = Some("done") THEN OnDone(out, dl)
            ELSE OnNotDone(out)

\* _handle_local_qa, lines 266-270
HandleLocalQa(q, answer) ==
    [NoHandler EXCEPT !.text = Some(answer), !.generated = TRUE]

\* lines 223-227: the handler of the intent
Route(kind, q, cfg, net, dl, answer) ==
    IF kind = "laptop_action" THEN HandleLaptopAction(q, cfg, net, dl)
    ELSE HandleLocalQa(q, answer)

\* The local model asked when no backend is configured.
ProcessQuestionLocalWhenUnconfigured(q, l, cfg, net, dl, answer) ==
    IF IsBlank(q) THEN NoHandler
    ELSE LET kind == ClassifyIntent(q, l).kind
         IN [Route(IF cfg = None THEN "local_qa" ELSE kind, q, cfg, net, dl, answer)
                EXCEPT !.intent = Some(kind)]

\* _process_question, lines 207-227
ProcessQuestion(q, l, cfg, net, dl, answer) ==
    IF IsBlank(q) THEN NoHandler
    ELSE LET kind == ClassifyIntent(q, l).kind
         IN [Route(kind, q, cfg, net, dl, answer) EXCEPT !.intent = Some(kind)]

\* The calls of capture_speech the loop makes, and the exceptions it
\* catches, in a run of the model.
MaxLoopCalls == 6
MaxCaught == 2

\* What the microphone, the recogniser, the model, the backend and the
\* download do in the runs of the model.
MainReads == {None, Some(Chunk(0)), Some(Chunk(3))}
MainDelays == {silence_duration}
MainTranscripts ==
    {None, Some(<<>>), Some(<<" ">>), Some(<<"h", "i">>),
     Some(<<"o", "p", "e", "n", " ", "i", "t">>)}
MainLlms ==
    {Some(Replying(S_laptop_action)), Some(Replying(S_local_qa)),
     Some(Replying(<<"I", "'", "m", " ", "s", "o", "r", "r", "y">>))}
MainAnswers == {"", "It is a language."}
MainObjects ==
    {[NoObject EXCEPT !.status = Present(Some("done")),
                      !.message = Present(Some("opened")),
                      !.screenshot_url = Present(Some(ScreenshotUrl))],
     [NoObject EXCEPT !.status = Present(Some("done"))],
     [NoObject EXCEPT !.status = Present(Some("error")),
                      !.message = Present(Some("no such app"))],
     [NoObject EXCEPT !.status = Present(Some("running"))],
     [NoObject EXCEPT !.status = Present(None)],
     NoObject}
MainNetworks ==
    {n \in Networks :
        \/ n.kind = "fail" /\ n.error = "Connection refused"
        \/ n.kind = "silent"
        \/ n.kind = "response" /\ n.shape \in {"nonjson", "array"}
        \/ n.kind = "response" /\ n.shape = "object" /\ n.obj \in MainObjects}
MainDownloads ==
    {d \in DownloadInputs :
        /\ d.url = <<>> /\ d.env = None /\ d.write = "ok"
        /\ d.mkdir = "ok" \/ d.net = "ok"
        /\ d.net # "http_error"}
\* The model answers a question itself, or sends it to the laptop.
MainWorlds ==
    [llm : MainLlms \ {Some(Replying(S_laptop_action))},
     net : {n \in MainNetworks : n.kind = "fail"},
     dl : {d \in MainDownloads : d.mkdir = "ok" /\ d.net = "ok"},
     answer : MainAnswers]
    \cup [llm : {Some(Replying(S_laptop_action))},
          net : MainNetworks,
          dl : MainDownloads,
          answer : {""}]
BackendConfig == [host |-> "localhost", port |-> 8000, timeout_seconds |-> 300]

\* The steps inside the loop body.
LoopPcs == {"top", "capture", "transcribe", "process", "speak", "reset", "blocked"}

\* run(), lines 272-286: _setup_bluetooth, _initialize_components,
\* start_stream and running = True; _initialize_components raises on a
\* missing model path, leaving the later components unset.
RunStart ==
    /\ pc = "constructed"
    /\ \/ /\ comps' = [c \in Components |-> TRUE]
          /\ laptop_config' \in {None, Some(BackendConfig)}
          /\ StartStream
          /\ running' = TRUE
          /\ pc' = "top"
       \/ /\ comps' \in {[c \in Components |-> c = "audio_input"],
                         [c \in Components |-> c \in {"audio_input", "stt"}]}
          /\ pc' = "cleanup"
          /\ UNCHANGED <<segVars, running, laptop_config>>
    /\ UNCHANGED <<question, responseText, released, sigInLoop, lateIteration,
                   audioData, handled, signalled, caught, transcribed, dispatched,
                   vadVars, intentVars, callVars>>

\* line 289: while self.running
LoopTop ==
    /\ pc = "top"
    /\ running => calls < MaxLoopCalls
    /\ pc' = IF running THEN "capture" ELSE "cleanup"
    /\ lateIteration' = (lateIteration \/ (running /\ sigInLoop))
    /\ UNCHANGED <<running, laptop_config, comps, question, responseText, released,
                   sigInLoop, audioData, handled, signalled, caught, transcribed,
                   dispatched, segVars, vadVars, intentVars, callVars>>

\* lines 292-294: audio_data = self.audio_input.capture_speech()
Capture ==
    /\ pc = "capture"
    /\ \E read \in MainReads, dt \in MainDelays : CaptureSpeech(read, dt)
    /\ audioData' = ret'
    /\ pc' = IF Truthy(ret') THEN "transcribe" ELSE "top"
    /\ UNCHANGED <<running, laptop_config, comps, question, responseText, released,
                   sigInLoop, lateIteration, handled, signalled, caught, transcribed,
                   dispatched, vadVars, intentVars, callVars>>

\* An utterance emitted by a capture_speech call made while the previous
\* one is transcribed.
TranscribePipelined ==
    /\ pc = "transcribe"
    /\ question' \in MainTranscripts
    /\ transcribed' = Append(transcribed, nEmitted)
    /\ pc' = IF Truthy(question') THEN "process" ELSE "top"
    /\ \E read \in MainReads, dt \in MainDelays : CaptureSpeech(read, dt)
    /\ UNCHANGED <<running, laptop_config, comps, responseText, released, sigInLoop,
                   lateIteration, audioData, handled, signalled, caught, dispatched,
                   vadVars, intentVars, callVars>>

\* lines 296-298: question = self.stt.transcribe(audio_data)
Transcribe ==
    /\ pc = "transcribe"
    /\ question' \in MainTranscripts
    /\ transcribed' = Append(transcribed, nEmitted)
    /\ pc' = IF Truthy(question') THEN "process" ELSE "top"
    /\ UNCHANGED <<running, laptop_config, comps, responseText, released, sigInLoop,
                   lateIteration, audioData, handled, signalled, caught, dispatched,
                   segVars, vadVars, intentVars, callVars>>

\* lines 300-302: response = self._process_question(question); the POST of
\* a dispatch may never return, and an exception that leaves the call is
\* caught in line 313.
Process ==
    /\ pc = "process"
    /\ \E w \in MainWorlds :
          LET h == ProcessQuestion(Get(question), w.llm, laptop_config, w.net, w.dl,
                                   w.answer)
          IN /\ handled' = Some(h)
             /\ dispatched' = IF h.intent # None THEN Append(dispatched, nEmitted)
                              ELSE dispatched
             /\ responseText' = IF h.state = "returned" THEN h.text ELSE None
             /\ caught' = IF h.state = "raised" THEN caught + 1 ELSE caught
             /\ pc' = IF h.state = "blocked" THEN "blocked"
                      ELSE IF h.state = "raised" THEN "top"
                      ELSE IF TruthyStr(h.text) THEN "speak"
                      ELSE "reset"
    /\ UNCHANGED <<running, laptop_config, comps, question, released, sigInLoop,
                   lateIteration, audioData, signalled, transcribed, segVars,
                   vadVars, intentVars, callVars>>

\* lines 302-304: self.audio_output.speak(response)
Speak ==
    /\ pc = "speak"
    /\ pc' = "reset"
    /\ UNCHANGED <<running, laptop_config, comps, question, responseText, released,
                   sigInLoop, lateIteration, audioData, handled, signalled, caught,
                   transcribed, dispatched, segVars, vadVars, intentVars, callVars>>

\* lines 306-307: self.stt.reset(), the end of the loop body
Reset ==
    /\ pc = "reset"
    /\ pc' = "top"
    /\ question' = None
    /\ responseText' = None
    /\ handled' = None
    /\ UNCHANGED <<running, laptop_config, comps, released, sigInLoop, lateIteration,
                   audioData, signalled, caught, transcribed, dispatched, segVars,
                   vadVars, intentVars, callVars>>

\* The exception ends the loop.
StepRaisesLeavesLoop ==
    /\ pc \in {"capture", "transcribe", "process", "speak", "reset"}
    /\ caught < MaxCaught
    /\ pc' = "cleanup"
    /\ caught' = caught + 1
    /\ question' = None
    /\ responseText' = None
    /\ handled' = None
    /\ UNCHANGED <<running, laptop_config, comps, released, sigInLoop, lateIteration,
                   audioData, signalled, transcribed, dispatched, segVars, vadVars,
                   intentVars, callVars>>

\* lines 313-315: an exception raised inside capture_speech (before it
\* changes the segmenter, as np.frombuffer does), transcribe,
\* _process_question, speak or reset is logged and the loop goes on.
StepRaises ==
    /\ pc \in {"capture", "transcribe", "process", "speak", "reset"}
    /\ caught < MaxCaught
    /\ pc' = "top"
    /\ caught' = caught + 1
    /\ question' = None
    /\ responseText' = None
    /\ handled' = None
    /\ UNCHANGED <<running, laptop_config, comps, released, sigInLoop, lateIteration,
                   audioData, signalled, transcribed, dispatched, segVars, vadVars,
                   intentVars, callVars>>

\* cleanup(), lines 322-338, from the finally of run(); the audio input's
\* cleanup stops the stream.
Cleanup ==
    /\ pc = "cleanup"
    /\ released' = [c \in Components |-> IF comps[c] THEN released[c] + 1
                                         ELSE released[c]]
    /\ stream' = IF comps["audio_input"] THEN None ELSE stream
    /\ is_listening' = IF comps["audio_input"] THEN FALSE ELSE is_listening
    /\ pc' = "done"
    /\ UNCHANGED <<speech_buffer, last_speech_time, speech_start_time, ret, fired,
                   now, calls, scenario, lastInput, run, closedRun, nEmitted>>
    /\ UNCHANGED <<running, laptop_config, comps, question, responseText, sigInLoop,
                   lateIteration, audioData, handled, signalled, caught, transcribed,
                   dispatched, vadVars, intentVars, callVars>>

\* _signal_handler, lines 90-93
SignalHandler == running' = FALSE

\* A SIGINT or SIGTERM: the handler installed by __init__ (lines 46-47)
\* runs between two steps of run(), or while run() is blocked.
Signal ==
    /\ pc # "done"
    /\ SignalHandler
    /\ signalled' = TRUE
    /\ sigInLoop' = (sigInLoop \/ (running /\ pc \in LoopPcs))
    /\ UNCHANGED <<laptop_config, comps, pc, question, responseText, released,
                   lateIteration, audioData, handled, caught, transcribed,
                   dispatched, segVars, vadVars, intentVars, callVars>>

\* A step of run() itself.
RunStep ==
    \/ RunStart
    \/ LoopTop
    \/ Capture
    \/ Transcribe
    \/ Process
    \/ Speak
    \/ Reset
    \/ StepRaises
    \/ Cleanup

InitMain ==
    /\ InitSeg
    /\ ~scenario
    /\ InitVadIdle
    /\ InitIntentIdle
    /\ InitDispIdle
    /\ InitDlIdle
    /\ InitLlamaIdle
    /\ InitMainIdle

NextMain ==
    \/ RunStart
    \/ LoopTop
    \/ Capture
    \/ Transcribe
    \/ Process
    \/ Speak
    \/ Reset
    \/ StepRaises
    \/ Cleanup
    \/ Signal

SpecMain == InitMain /\ [][NextMain]_vars

(***************************************************************************)
(* Properties of the segmenter.                                            *)
(***************************************************************************)
Idle == speech_buffer = <<>> /\ speech_start_time = None

FrameBytes == 2 * ChunkSamples

RunDuration(r) == r.last - r.first

\* C1: after any sequence of capture_speech calls, speech_buffer is
\* non-empty if and only if speech_start_time is set.
BufferIffStarted == (speech_buffer # <<>>) <=> (speech_start_time # None)

\* A second utterance is being captured after a first one was returned.
BufferIffStartedWitness ==
    /\ nEmitted > 0
    /\ speech_buffer # <<>>
    /\ speech_start_time # None

\* C2: a call returns an utterance exactly when it reads the silence chunk
\* that closes a run (the first one silence_duration or more after the
\* run's last speech chunk) and the run's speech lasted min_speech_duration
\* or more; a shorter run is closed without any utterance.
HysteresisEmits ==
    (ret # None) <=>
        (closedRun # None /\ RunDuration(Get(closedRun)) >= min_speech_duration)

\* A run of exactly min_speech_duration was closed and returned.
HysteresisEmitsWitness ==
    /\ closedRun # None
    /\ RunDuration(Get(closedRun)) = min_speech_duration
    /\ ret # None

\* C3: a returned utterance is the in-order concatenation of the speech
\* chunks of its run, one FrameBytes each, and of nothing else.
UtteranceIsSpeechFrames ==
    ret # None =>
        /\ closedRun # None
        /\ Get(ret) = Join(Get(closedRun).frames)
        /\ Len(Get(ret)) = Len(Get(closedRun).frames) * FrameBytes
        /\ \A i \in 1..Len(Get(closedRun).frames) :
              IsSpeaking(Get(closedRun).frames[i])

\* An utterance of two different speech chunks with silence between them.
UtteranceIsSpeechFramesWitness ==
    /\ ret # None
    /\ closedRun # None
    /\ Len(Get(closedRun).frames) >= 2
    /\ Get(closedRun).frames[1] # Get(closedRun).frames[2]
    /\ Get(closedRun).quiet >= 2

\* The call that closes a run leaves the segmenter Idle; the recorded
\* scenario returns one utterance, of ScenarioSpeech chunks.
ResetState ==
    /\ closedRun # None => Idle
    /\ scenario /\ ret # None =>
          /\ nEmitted = 1
          /\ Len(Get(ret)) = ScenarioSpeech * FrameBytes
    /\ scenario /\ calls = ScenarioSpeech + ScenarioSilence =>
          /\ nEmitted = 1
          /\ Idle

\* While Idle a silence chunk returns nothing and changes nothing, and a
\* speech chunk starts a buffer that holds that chunk alone.
ResetStep ==
    Idle /\ calls' = calls + 1 =>
        /\ lastInput' = "silence" => ret' = None /\ Idle'
        /\ lastInput' = "speech" =>
              /\ Len(speech_buffer') = 1
              /\ speech_buffer' = Get(run').frames

\* C4: after a call that returns or discards an utterance the segmenter is
\* Idle, further silence returns nothing, the next utterance starts from an
\* empty buffer, and the recorded scenario yields exactly one utterance of
\* ScenarioSpeech chunks and ends Idle.
ResetAfterUtterance == []ResetState /\ [][ResetStep]_vars

\* The recorded scenario was played to its end.
ResetAfterUtteranceWitness ==
    /\ scenario
    /\ calls = ScenarioSpeech + ScenarioSilence
    /\ nEmitted = 1
    /\ Idle

(***************************************************************************)
(* Properties of the energy detector.                                      *)
(***************************************************************************)
\* C5: _is_speech returns true iff the root mean square of the samples is
\* strictly greater than the threshold.
VadIsExactRms ==
    vadResult # None =>
        (Get(vadResult) <=> ExactRmsAbove(vadFrame, vadThreshold))

\* C6: a frame classified as speech at a threshold is classified as speech
\* at every lower threshold.
VadMonotone ==
    vadResult = Some(TRUE) =>
        \A t \in Thresholds : RatLeq(t, vadThreshold) => IsSpeech(vadFrame, t)

\* A frame was classified as speech at a threshold that is not the lowest.
VadMonotoneWitness ==
    /\ vadResult = Some(TRUE)
    /\ \E t \in Thresholds : RatLeq(t, vadThreshold) /\ t # vadThreshold

(***************************************************************************)
(* Properties of the intent classifier.                                    *)
(***************************************************************************)
AllWhitespace(t) == \A i \in 1..Len(t) : t[i] \in Whitespace

Decided(kind, confidence) ==
    /\ intent # None
    /\ ~Get(intent).raised
    /\ Get(intent).kind = kind
    /\ Get(intent).confidence = confidence

RepliedWith(r) == llm # None /\ Get(llm).kind = "reply" /\ Get(llm).reply = r

\* The keywords associated with GUI actions.
GuiKeywords ==
    {<<"o", "p", "e", "n">>,
     <<"g", "o", " ", "t", "o">>,
     <<"l", "o", "g", "i", "n">>,
     <<"t", "e", "x", "t">>,
     <<"m", "e", "s", "s", "a", "g", "e">>,
     <<"s", "e", "n", "d">>,
     <<"c", "l", "i", "c", "k">>,
     <<"t", "y", "p", "e">>,
     <<"n", "a", "v", "i", "g", "a", "t", "e">>,
     <<"w", "e", "b", "s", "i", "t", "e">>,
     <<"a", "p", "p">>,
     <<"a", "p", "p", "l", "i", "c", "a", "t", "i", "o", "n">>}

HasGuiKeyword(t) == \E k \in GuiKeywords : Contains(Lower(t), k)

ReplyParsed ==
    \A r \in Replies :
        intent # None /\ ~AllWhitespace(text) /\ RepliedWith(r) =>
            /\ Contains(Lower(r), S_laptop) => Decided("laptop_action", 10)
            /\ Contains(Lower(r), S_local) /\ ~Contains(Lower(r), S_laptop) =>
                  Decided("local_qa", 10)

\* A reply with both words, "local" first, was parsed as laptop_action.
ReplyParsedWitness ==
    /\ Decided("laptop_action", 10)
    /\ \E r \in Replies :
          /\ RepliedWith(r)
          /\ Contains(Lower(r), S_laptop)
          /\ Contains(Lower(r), S_local)
    /\ ~HasGuiKeyword(text)

\* C10: a reply with neither "laptop" nor "local" leaves the decision to the
\* text: (laptop_action, 0.8) if the lower-cased text contains a GUI keyword,
\* (local_qa, 0.8) if not; keywords in the reply count for nothing.
UnparseableUsesText ==
    \A r \in Replies :
        /\ intent # None
        /\ ~AllWhitespace(text)
        /\ RepliedWith(r)
        /\ ~Contains(Lower(r), S_laptop)
        /\ ~Contains(Lower(r), S_local)
        => IF HasGuiKeyword(text)
           THEN Decided("laptop_action", 8)
           ELSE Decided("local_qa", 8)

\* The reply holds a GUI keyword, the text none: local_qa.
UnparseableUsesTextWitness ==
    /\ Decided("local_qa", 8)
    /\ \E r \in Replies : RepliedWith(r) /\ HasGuiKeyword(r)
    /\ ~HasGuiKeyword(text)

GeneratorFailed == llm # None /\ Get(llm).kind # "reply"

\* C11: when the generator call fails, classify_intent returns the kind the
\* unparseable-reply fallback would choose for the text, with confidence 0.7,
\* and raises nothing.
ExceptionMatchesFallback ==
    intent # None /\ ~AllWhitespace(text) /\ GeneratorFailed =>
        /\ ~Get(intent).raised
        /\ Get(intent).confidence = 7
        /\ Get(intent).kind = KeywordFallback(text, <<>>).kind

\* The generator failed on a text with "application", the one indicator the
\* exception fallback's list lacks.
ExceptionMatchesFallbackWitness ==
    /\ Decided("laptop_action", 7)
    /\ GeneratorFailed
    /\ Contains(Lower(text), <<"a", "p", "p", "l", "i", "c", "a", "t", "i", "o", "n">>)

\* C12: without an llm, a text with a laptop-action indicator is classified
\* laptop_action and a text without one local_qa.
NoLlmUsesKeywords ==
    intent # None /\ ~AllWhitespace(text) /\ llm = None =>
        /\ ~Get(intent).raised
        /\ Get(intent).kind =
              IF HasGuiKeyword(text) THEN "laptop_action" ELSE "local_qa"

(***************************************************************************)
(* Properties of send_laptop_task.                                         *)
(***************************************************************************)
Sent == dOut # None
SentText == Sent /\ ~AllWhitespace(dReq.user_text)
NonEmptyMessage(result) == result.message # None /\ Get(result.message) # ""
ErrorResult(out) ==
    /\ out.state = "returned"
    /\ out.result.status = Some("error")
    /\ NonEmptyMessage(out.result)

\* C13: with a non-blank user_text and a network request that fails,
\* send_laptop_task does not raise; it returns status 'error', a non-empty
\* message, screenshot_url None and the request's own task_id.
NetworkFailureIsErrorResult ==
    SentText /\ dNet.kind = "fail" =>
        /\ ErrorResult(Get(dOut))
        /\ Get(dOut).result.screenshot_url = None
        /\ Get(dOut).result.task_id = Some(dReq.task_id)

NetworkFailureIsErrorResultWitness ==
    /\ SentText
    /\ dNet.kind = "fail"
    /\ dNet.error = ""
    /\ Get(dOut).state = "returned"
    /\ Len(Get(dOut).posts) = 1

\* C14: for every response body that is not a JSON object (text that is no
\* JSON, or a JSON array, string, number or null), send_laptop_task returns
\* status 'error' with an explanatory message and does not raise.
MalformedBodyIsErrorResult ==
    SentText /\ dNet.kind = "response" /\ dNet.shape # "object" =>
        ErrorResult(Get(dOut))

\* C15: the status of every returned result is 'done', 'error' or
\* 'unknown', whatever status the backend's JSON carries.
StatusInEnum ==
    Sent /\ Get(dOut).state = "returned" =>
        Get(dOut).result.status \in {Some("done"), Some("error"), Some("unknown")}

ObjectResponse == SentText /\ dNet.kind = "response" /\ dNet.shape = "object"
FieldOr(field, default) == IF field = Absent THEN default ELSE field[2]
Falsy(field) == field \in {Absent, Present(None), Present(Some(""))}
EchoesDone ==
    /\ ObjectResponse
    /\ dNet.obj.task_id = Present(Some(dReq.task_id))
    /\ dNet.obj.status = Present(Some("done"))
    /\ dNet.obj.screenshot_url \notin {Absent, Present(None)}

\* C16 as stated: for a JSON-object response every field of the result is
\* the response's field, or its default when the field is absent ('unknown',
\* '', None, the request's task_id).
ObjectFieldsOrDefaultIfAbsent ==
    ObjectResponse =>
        /\ Get(dOut).state = "returned"
        /\ Get(dOut).result.status = FieldOr(dNet.obj.status, Some("unknown"))
        /\ Get(dOut).result.message = FieldOr(dNet.obj.message, Some(""))
        /\ Get(dOut).result.screenshot_url = FieldOr(dNet.obj.screenshot_url, None)
        /\ Get(dOut).result.task_id = FieldOr(dNet.obj.task_id, Some(dReq.task_id))

\* C16: for a JSON-object response the result holds the response's status
\* ('unknown' if absent), its message ('' if absent, null or empty), its
\* screenshot URL (None if absent) and its task_id (the request's if
\* absent); a backend echoing the request's task_id with status 'done' and
\* a screenshot URL yields the matching task_id and a screenshot_url.
ObjectFieldsNormalized ==
    ObjectResponse =>
        /\ Get(dOut).state = "returned"
        /\ Get(dOut).result.status = FieldOr(dNet.obj.status, Some("unknown"))
        /\ Get(dOut).result.message =
              IF Falsy(dNet.obj.message) THEN Some("") ELSE dNet.obj.message[2]
        /\ Get(dOut).result.screenshot_url = FieldOr(dNet.obj.screenshot_url, None)
        /\ Get(dOut).result.task_id = FieldOr(dNet.obj.task_id, Some(dReq.task_id))
        /\ EchoesDone =>
              /\ Get(dOut).result.task_id = Some(dReq.task_id)
              /\ Get(dOut).result.status = Some("done")
              /\ Get(dOut).result.screenshot_url # None

ObjectFieldsNormalizedWitness ==
    /\ EchoesDone
    /\ dNet.obj.message = Present(None)
    /\ Get(dOut).state = "returned"
    /\ Get(dOut).result.message = Some("")

\* C17: with an empty or whitespace-only user_text send_laptop_task raises
\* ValueError before the payload is built and before any request is made;
\* it returns nothing.
BlankTextRejected ==
    Sent /\ AllWhitespace(dReq.user_text) =>
        /\ Get(dOut).state = "raised"
        /\ Get(dOut).exc = "ValueError"
        /\ ~Get(dOut).built
        /\ Get(dOut).posts = <<>>

BlankTextRejectedWitness ==
    /\ Sent
    /\ dReq.user_text = <<" ", "\t">>
    /\ Get(dOut).state = "raised"

\* C18: a call with non-blank text issues exactly one POST to
\* http://{host}:{port}/pi_task whose body holds the caller's task_id, mode
\* and options unchanged (an empty options mapping included) and the text
\* with leading and trailing whitespace removed.
OnePostCarriesRequest ==
    SentText =>
        /\ Len(Get(dOut).posts) = 1
        /\ Get(dOut).posts[1].url =
              "http://" \o dCfg.host \o ":" \o ToString(dCfg.port) \o "/pi_task"
        /\ Get(dOut).posts[1].json.task_id = dReq.task_id
        /\ Get(dOut).posts[1].json.mode = dReq.mode
        /\ dReq.options # None =>
              Get(dOut).posts[1].json.options = Get(dReq.options)
        /\ Get(dOut).posts[1].json.user_text = Strip(dReq.user_text)

(***************************************************************************)
(* Properties of download_screenshot.                                      *)
(***************************************************************************)
DownloadError ==
    \/ dlIn.url = <<>>
    \/ dlIn.mkdir = "fail"
    \/ ~FloatParses(IF dlIn.env = None THEN <<"3", "0">> ELSE Get(dlIn.env))
    \/ dlIn.net \in {"fail", "http_error"}
    \/ dlIn.write = "fail"

\* C19: download_screenshot never raises; on any error (empty URL, directory
\* not created, malformed timeout setting, network failure, HTTP error
\* status, write failure) it returns None, and it returns the written path
\* only when the file was fetched and written.
DownloadNeverRaises ==
    dlOut # None =>
        /\ Get(dlOut).state = "returned"
        /\ DownloadError => Get(dlOut).path = None
        /\ Get(dlOut).path # None =>
              Get(dlOut).fetched /\ Get(dlOut).written = Get(dlOut).path

(***************************************************************************)
(* Properties of the VoiceAssistant.                                       *)
(***************************************************************************)
AllReleasedOnce == \A c \in Components : released[c] = 1

\* C20: once a shutdown signal came while the loop of run() was running, no
\* further iteration begins (so no further utterance is processed), run()
\* goes on to leave the loop and to finish, and cleanup() has then released
\* the audio input, the audio output, the STT and the LLM exactly once.
SignalStopsLoop ==
    sigInLoop =>
        /\ ~lateIteration
        /\ ~running
        /\ pc = "done" => AllReleasedOnce
        /\ pc # "done" => ENABLED RunStep

LoopBody == {"capture", "transcribe", "process", "speak", "reset"}

CaughtState ==
    caught > 0 /\ ~signalled =>
        /\ running
        /\ pc \in LoopPcs
        /\ pc # "blocked" /\ calls < MaxLoopCalls => ENABLED RunStep

CaughtStep ==
    caught' > caught =>
        /\ pc \in LoopBody
        /\ pc' = "top"
        /\ running' = running
        /\ UNCHANGED <<comps, released, speech_buffer, speech_start_time,
                       last_speech_time, is_listening, stream>>

\* C21: an exception raised by a step of an iteration (capture, transcribe,
\* classify, dispatch, local generation, speak, STT reset) is caught at the
\* loop boundary: the loop goes to its top with running unchanged, it is not
\* left while no signal comes, and it can go on to capture and process a
\* later utterance.
ExceptionKeepsLoop == []CaughtState /\ [][CaughtStep]_vars

\* The first utterance met an exception after it was transcribed; the second
\* one was transcribed and handled and its response is about to be spoken.
ExceptionKeepsLoopWitness ==
    /\ caught = 1
    /\ running
    /\ transcribed = <<1, 2>>
    /\ dispatched = <<2>>
    /\ pc = "speak"
    /\ TruthyStr(responseText)

\* The latest _process_question made a dispatch, which came to out.
DispatchOutcomes == {Get(handled).dispatch[i] : i \in 1..Len(Get(handled).dispatch)}

NotDone(out) ==
    \/ out.state = "raised"
    \/ out.state = "returned" /\ out.result.status # Some("done")

ApologyFor(out) ==
    IF out.state = "raised"
    THEN "Sorry, I couldn't send that task to your laptop: " \o out.exc
    ELSE "Sorry, the laptop task failed: " \o Get(out.result.message)

ApologyState ==
    handled # None =>
        \A out \in DispatchOutcomes :
            NotDone(out) =>
                /\ Get(handled).state = "returned"
                /\ Get(handled).text = Some(ApologyFor(out))
                /\ Get(handled).text # Some("")
                /\ responseText = Get(handled).text
                /\ pc \in {"speak", "reset"}

ApologyStep ==
    pc = "process" /\ handled' # None /\ (\E out \in DispatchOutcomes' : NotDone(out)) =>
        pc' = "speak"

\* C22: when the dispatch comes to anything but status 'done' (another
\* status, none, or an exception of send_laptop_task),
\* _handle_laptop_action does not raise and returns a non-empty apology,
\* which the loop passes to speak.
ApologySpoken == []ApologyState /\ [][ApologyStep]_vars

\* The backend answered with a JSON array, send_laptop_task raised, and the
\* apology is about to be spoken.
ApologySpokenWitness ==
    /\ handled # None
    /\ \E out \in DispatchOutcomes : out.state = "raised" /\ out.exc = "AttributeError"
    /\ pc = "speak"
    /\ responseText = Some("Sorry, I couldn't send that task to your laptop: AttributeError")

\* An utterance was emitted and its steps are not yet completed.
InFlight == pc \in {"transcribe", "process", "speak", "reset", "blocked"}

Increasing(ids) == \A i, j \in 1..Len(ids) : i < j => ids[i] < ids[j]

InFlightState ==
    /\ InFlight =>
          /\ Idle
          /\ Truthy(ret)
          /\ audioData = ret
          /\ nEmitted > 0
          /\ pc # "transcribe" => transcribed[Len(transcribed)] = nEmitted
    /\ Increasing(transcribed)
    /\ Increasing(dispatched)
    /\ \A i \in 1..Len(dispatched) :
          \E j \in 1..Len(transcribed) : transcribed[j] = dispatched[i]
    /\ \A j \in 1..Len(transcribed) : transcribed[j] \in 1..nEmitted

InFlightStep ==
    InFlight =>
        /\ calls' = calls
        /\ UNCHANGED <<speech_buffer, speech_start_time, last_speech_time, ret,
                       nEmitted, audioData>>
        /\ transcribed' # transcribed =>
              pc = "transcribe" /\ transcribed' = Append(transcribed, nEmitted)
        /\ dispatched' # dispatched =>
              pc = "process" /\ dispatched' = Append(dispatched, nEmitted)

\* C23: from the capture_speech call that emits an utterance until its
\* transcribe, classify, dispatch-or-generate and speak steps are over,
\* capture_speech is not called and the segmenter stays Idle and untouched;
\* utterances are transcribed and dispatched in the order of their emission.
OneInFlight == []InFlightState /\ [][InFlightStep]_vars

\* The second utterance is about to be spoken after the first was handled.
OneInFlightWitness ==
    /\ transcribed = <<1, 2>>
    /\ dispatched = <<1, 2>>
    /\ pc = "speak"
    /\ nEmitted = 2

\* C24: send_laptop_task always returns; with a backend that accepts the
\* connection and never answers, the timeout_seconds of the configuration
\* ends the POST and the call returns a result with status 'error'.
TimeoutBoundsPost ==
    SentText =>
        /\ Get(dOut).state # "blocked"
        /\ dNet.kind = "silent" => ErrorResult(Get(dOut))

\* C25: when the inference fails inside LlamaInference.generate while a
\* non-blank text is classified, classify_intent takes the
\* generation-failure tier: confidence 0.7, laptop_action if the text
\* matches the keyword heuristic and local_qa otherwise.
InferenceFailureIsFailureTier ==
    lmOut # None /\ ~AllWhitespace(lmIn.text) /\ lmIn.inference.kind = "fail" =>
        /\ ~Get(lmOut).raised
        /\ Get(lmOut).confidence = 7
        /\ Get(lmOut).kind = KeywordFallback(lmIn.text, <<>>).kind

(***************************************************************************)
(* Properties of the callbacks and of the calls without effect.            *)
(***************************************************************************)
Capturing == speech_start_time # None
CaptureCall == calls' = calls + 1

\* C26: on_speech_start is invoked exactly on the calls that take the
\* segmenter from Idle to Capturing, never while it is Capturing;
\* on_speech_end exactly on the calls that return an utterance, never on a
\* discard; so each on_speech_end ends a capture that an on_speech_start
\* opened, and a capture that is discarded leaves its on_speech_start
\* without an on_speech_end.
CallbacksMatchTransitions ==
    [][CaptureCall =>
          /\ "on_speech_start" \in fired' <=> ~Capturing /\ Capturing'
          /\ "on_speech_end" \in fired' <=> ret' # None
          /\ "on_speech_end" \in fired' => Capturing /\ ~Capturing'
          /\ Capturing /\ ~Capturing' /\ ret' = None => fired' = {}
          /\ fired' \subseteq {"on_speech_start", "on_speech_end"}
          /\ Cardinality(fired') <= 1]_vars

\* A capture was opened and then discarded as too short: its
\* on_speech_start stays without an on_speech_end.
CallbacksMatchTransitionsWitness ==
    /\ closedRun # None
    /\ RunDuration(Get(closedRun)) < min_speech_duration
    /\ ret = None
    /\ fired = {}
    /\ ~Capturing
    /\ nEmitted > 0

\* The call just made was one that has no effect: the handler was not
\* listening, the read failed, or the frame was silence while Idle or while
\* Capturing with less than silence_duration since the last speech frame.
NoEffectCall ==
    /\ CaptureCall
    /\ \/ lastInput' = "off" /\ ~is_listening
       \/ lastInput' = "fail"
       \/ lastInput' = "silence" /\ ~Capturing
       \/ /\ lastInput' = "silence"
          /\ Capturing
          /\ now' - Get(last_speech_time) < silence_duration

\* C27: capture_speech returns None and leaves speech_buffer,
\* speech_start_time and last_speech_time unchanged when the handler is not
\* listening, when the read fails, on silence while Idle, and on silence
\* while Capturing with less than silence_duration since the last speech.
NoEffectCalls ==
    [][NoEffectCall =>
          /\ ret' = None
          /\ UNCHANGED <<speech_buffer, speech_start_time, last_speech_time>>]_vars

\* A silence frame came while Capturing, before silence_duration had passed.
NoEffectCallsWitness ==
    /\ lastInput = "silence"
    /\ Capturing
    /\ speech_buffer # <<>>
    /\ now - Get(last_speech_time) > 0
    /\ now - Get(last_speech_time) < silence_duration
    /\ ret = None

NotConfiguredMessage ==
    "Laptop backend is not configured. Please set laptop host and port in config.yaml."

\* C28: for a non-blank transcript _process_question runs exactly one
\* handler: the dispatch (one send_laptop_task call) if and only if the
\* intent is laptop_action and a backend is configured, local generation if
\* and only if the intent is local_qa; laptop_action without a backend makes
\* no request and no generation and returns the fixed message. A blank
\* transcript runs no handler and no classifier.
OneHandler ==
    handled # None /\ question # None =>
        IF AllWhitespace(Get(question))
        THEN /\ Get(handled).intent = None
             /\ Get(handled).sends = 0
             /\ Get(handled).posts = <<>>
             /\ ~Get(handled).generated
             /\ Get(handled).text = None
        ELSE /\ Get(handled).intent \in {Some("laptop_action"), Some("local_qa")}
             /\ Get(handled).sends = 1 <=>
                   Get(handled).intent = Some("laptop_action") /\ laptop_config # None
             /\ Get(handled).sends \in {0, 1}
             /\ Len(Get(handled).posts) <= Get(handled).sends
             /\ Get(handled).generated <=> Get(handled).intent = Some("local_qa")
             /\ Get(handled).intent = Some("laptop_action") /\ laptop_config = None =>
                   /\ Get(handled).posts = <<>>
                   /\ Get(handled).dispatch = None
                   /\ ~Get(handled).generated
                   /\ Get(handled).state = "returned"
                   /\ Get(handled).text = Some(NotConfiguredMessage)

\* A laptop_action without a backend: the fixed message is about to be
\* spoken.
OneHandlerWitness ==
    /\ handled # None
    /\ question = Some(<<"o", "p", "e", "n", " ", "i", "t">>)
    /\ Get(handled).intent = Some("laptop_action")
    /\ laptop_config = None
    /\ responseText = Some(NotConfiguredMessage)
    /\ pc = "speak"

DoneOutcome(out) == out.state = "returned" /\ out.result.status = Some("done")

\* C29: whenever send_laptop_task returns status 'done',
\* _handle_laptop_action returns 'Task completed: <message>', whatever the
\* screenshot download comes to (not attempted, a path, None, or a failure
\* creating the directory or fetching); the download is attempted only with
\* status 'done' and a screenshot URL.
DoneIsTaskCompleted ==
    handled # None =>
        \A out \in DispatchOutcomes :
            /\ DoneOutcome(out) =>
                  /\ Get(handled).state = "returned"
                  /\ Get(handled).text =
                        Some("Task completed: " \o Get(out.result.message))
            /\ Get(handled).download # None =>
                  DoneOutcome(out) /\ Truthy(out.result.screenshot_url)

\* C30: a signal delivered at any point after the assistant is constructed,
\* also before run() sets running = True, is not lost: the loop finds
\* running false at its next test, run() leaves the loop and cleanup() is
\* run, without a second signal.
SignalNeverLost ==
    signalled =>
        /\ pc \in LoopPcs => ~running
        /\ pc = "done" => \A c \in Components : released[c] = IF comps[c] THEN 1 ELSE 0

====
